---- MODULE Spec2Model ----
(***************************************************************************)
(* S3Client (src/class_S3.py): a facade over a boto3 S3 client.  The       *)
(* client's own state is self.bucket and self.s3; everything else lives in *)
(* the storage service (the buckets, their policy, versioning and          *)
(* lifecycle configuration) and in the local file system.  Every method is *)
(* one action; `last` records what the most recent invocation did: the     *)
(* capability calls it issued, what it returned or raised, and what it     *)
(* printed.                                                                *)
(***************************************************************************)
EXTENDS Integers, Sequences, FiniteSets

VARIABLES bucket, s3, store, policy, versioning, lifecycle, local, uploaded, last

vars == <<bucket, s3, store, policy, versioning, lifecycle, local, uploaded, last>>

(***************************************************************************)
(* Bounds and value sets.                                                  *)
(***************************************************************************)
\* The largest number of keys one list_objects_v2 response carries.
PageLimit == 1

\* One key more than a page holds, so that a listing can be truncated.
NumKeys == PageLimit + 1

\* Object keys, in the service's listing order.
Keys == 1..NumKeys

\* expiration_days when the caller passes none (the parameter's default).
DefaultDays == 3

\* The positional arguments a caller gives set_bucket_lifecycle_policy.
DaysInputs == {<<>>, <<0>>}

Contents == {"c1", "c2"}
Absent == "Absent"
NoFile == "NoFile"
Paths == {"sales_data.csv", "copy.csv"}

ConfiguredBucket == "bucketmaks"
ForeignBucket == "archive"
MissingBucket == "nobucket"
ExistingBuckets == {ConfiguredBucket, ForeignBucket}

None == "None"
NoFault == [class |-> "NoFault", code |-> ""]
NoPolicy == [Version |-> "", Statement |-> <<>>]
NoVersioning == [Status |-> ""]
NoLifecycle == [Rules |-> <<>>]
NoError == [class |-> "NoError", code |-> ""]

ClientError(error_code) == [class |-> "ClientError", code |-> error_code]
EndpointConnectionError == [class |-> "EndpointConnectionError", code |-> ""]
S3UploadFailedError(error_code) == [class |-> "S3UploadFailedError", code |-> error_code]
FileNotFoundError == [class |-> "FileNotFoundError", code |-> ""]

\* What the service or the network may answer whatever the bucket holds.
Faults == {ClientError("AccessDenied"), EndpointConnectionError}
FaultChoices == Faults \cup {NoFault}
\* put_bucket_versioning's caller tells the error codes apart, so it is also
\* given a code that is neither of the two it names.
VersioningFaultChoices == FaultChoices \cup {ClientError("InternalError")}

(***************************************************************************)
(* Records of an invocation.                                               *)
(***************************************************************************)
Return(value) == [kind |-> "return", value |-> value]
Raise(error) == [kind |-> "raise", error |-> error]

Call(api, Bucket, arg, fault, answer) ==
  [api |-> api, Bucket |-> Bucket, arg |-> arg, fault |-> fault,
   error |-> answer.error, response |-> answer.response]

Invocation(op, args, calls, result, out, after) ==
  [op |-> op, args |-> args, calls |-> calls, result |-> result, out |-> out, after |-> after]

Answer(error, response) == [error |-> error, response |-> response]

Failed(call) == call.error # NoError

\* The upload the invocation `inv` was, if it was a successful one.
NoKey == [key |-> 0, path |-> None]
JustUploaded(inv) ==
  IF inv.op = "upload" /\ inv.result.kind = "return"
  THEN [key |-> inv.args.object_name, path |-> inv.args.file_path]
  ELSE NoKey

(***************************************************************************)
(* The storage capability (the boto3 client self.s3).                      *)
(***************************************************************************)
RECURSIVE SortedKeys(_)
SortedKeys(S) ==
  IF S = {} THEN <<>>
  ELSE LET k == CHOOSE x \in S : \A y \in S : x <= y
       IN <<k>> \o SortedKeys(S \ {k})

Page(s) == IF Len(s) <= PageLimit THEN s ELSE SubSeq(s, 1, PageLimit)

ObjectKeys(b) == {k \in Keys : store[b][k] # Absent}

put_bucket_policy(Bucket, Policy, fault) ==
  IF fault # NoFault THEN Answer(fault, None)
  ELSE IF Bucket \notin ExistingBuckets THEN Answer(ClientError("NoSuchBucket"), None)
  ELSE Answer(NoError, None)

put_bucket_versioning(Bucket, VersioningConfiguration, fault) ==
  IF fault # NoFault THEN Answer(fault, None)
  ELSE IF Bucket \notin ExistingBuckets THEN Answer(ClientError("NoSuchBucket"), None)
  ELSE Answer(NoError, None)

put_bucket_lifecycle_configuration(Bucket, LifecycleConfiguration, fault) ==
  IF fault # NoFault THEN Answer(fault, None)
  ELSE IF Bucket \notin ExistingBuckets THEN Answer(ClientError("NoSuchBucket"), None)
  ELSE Answer(NoError, None)

upload_file(Filename, Bucket, Key, fault) ==
  IF local[Filename] = NoFile THEN Answer(FileNotFoundError, None)
  ELSE IF fault # NoFault THEN Answer(fault, None)
  ELSE IF Bucket \notin ExistingBuckets THEN Answer(S3UploadFailedError("NoSuchBucket"), None)
  ELSE Answer(NoError, None)

download_file(Bucket, Key, Filename, fault) ==
  IF fault # NoFault THEN Answer(fault, None)
  ELSE IF Bucket \notin ExistingBuckets THEN Answer(ClientError("404"), None)
  ELSE IF store[Bucket][Key] = Absent THEN Answer(ClientError("404"), None)
  ELSE Answer(NoError, store[Bucket][Key])

list_objects_v2(Bucket, fault) ==
  IF fault # NoFault THEN Answer(fault, None)
  ELSE IF Bucket \notin ExistingBuckets THEN Answer(ClientError("NoSuchBucket"), None)
  ELSE LET all == SortedKeys(ObjectKeys(Bucket))
           page == Page(all)
       IN IF all = <<>>
          THEN Answer(NoError, [KeyCount |-> 0, IsTruncated |-> FALSE])
          ELSE Answer(NoError, [KeyCount |-> Len(page), IsTruncated |-> Len(all) > Len(page),
                                Contents |-> [i \in 1..Len(page) |-> [Key |-> page[i]]]])

head_object(Bucket, Key, fault) ==
  IF fault # NoFault THEN Answer(fault, None)
  ELSE IF Bucket \notin ExistingBuckets THEN Answer(ClientError("404"), None)
  ELSE IF store[Bucket][Key] = Absent THEN Answer(ClientError("404"), None)
  ELSE Answer(NoError, None)

(***************************************************************************)
(* S3Client.                                                               *)
(***************************************************************************)
Init ==
  /\ bucket \in {ConfiguredBucket, MissingBucket}
  /\ s3 = [service |-> "s3", endpoint_url |-> "http://localhost:9000",
           aws_access_key_id |-> "access_key", aws_secret_access_key |-> "secret_key",
           signature_version |-> "s3v4", region_name |-> "us-east-1"]
  /\ store = [b \in ExistingBuckets |-> [k \in Keys |-> Absent]]
  /\ policy = [b \in ExistingBuckets |-> NoPolicy]
  /\ versioning = [b \in ExistingBuckets |-> NoVersioning]
  /\ lifecycle = [b \in ExistingBuckets |-> NoLifecycle]
  /\ local \in {[p \in Paths |-> IF p = "sales_data.csv" THEN "c1" ELSE c] : c \in {"c2", NoFile}}
  /\ uploaded = [k \in Keys |-> Absent]
  /\ last = Invocation("__init__", None, <<>>, Return(None), <<>>, NoKey)

Policy(b) ==
  [Version |-> "2012-10-17",
   Statement |-> <<
     [Sid |-> "PublicRead", Effect |-> "Allow", Principal |-> <<"*">>,
      Action |-> <<"s3:GetObject">>, Resource |-> << <<"arn:aws:s3:::", b, "/*">> >>],
     [Sid |-> "FullAccessForUserM", Effect |-> "Allow", Principal |-> <<"AWS", "user_m">>,
      Action |-> <<"s3:*">>,
      Resource |-> << <<"arn:aws:s3:::", b>>, <<"arn:aws:s3:::", b, "/*">> >>],
     [Sid |-> "ReadOnlyForUserB", Effect |-> "Allow", Principal |-> <<"AWS", "user_b">>,
      Action |-> <<"s3:GetObject", "s3:ListBucket">>,
      Resource |-> << <<"arn:aws:s3:::", b>>, <<"arn:aws:s3:::", b, "/*">> >>] >>]

set_bucket_policy ==
  \E fault \in FaultChoices :
    LET doc == Policy(bucket)
        call == Call("put_bucket_policy", bucket, doc, fault,
                     put_bucket_policy(bucket, doc, fault))
    IN /\ policy' = IF Failed(call) THEN policy ELSE [policy EXCEPT ![bucket] = doc]
       /\ last' = Invocation("set_bucket_policy", None, <<call>>,
                             IF Failed(call) THEN Raise(call.error) ELSE Return(None),
                             IF Failed(call) THEN <<>> ELSE <<"policy_updated">>,
                             NoKey)
       /\ UNCHANGED <<bucket, s3, store, versioning, lifecycle, local, uploaded>>

VersioningReport_no_access_denied(error_code) ==
  IF error_code = "NoSuchBucket" THEN "bucket_not_found"
  ELSE "versioning_error"

VersioningReport(error_code) ==
  IF error_code = "NoSuchBucket" THEN "bucket_not_found"
  ELSE IF error_code = "AccessDenied" THEN "access_denied"
  ELSE "versioning_error"

enable_bucket_versioning ==
  \E fault \in VersioningFaultChoices :
    LET conf == [Status |-> "Enabled"]
        call == Call("put_bucket_versioning", bucket, conf, fault,
                     put_bucket_versioning(bucket, conf, fault))
        caught == call.error.class = "ClientError"
    IN /\ versioning' = IF Failed(call) THEN versioning ELSE [versioning EXCEPT ![bucket] = conf]
       /\ last' = Invocation("enable_bucket_versioning", None, <<call>>,
                             IF ~Failed(call) THEN Return(TRUE)
                             ELSE IF caught THEN Return(FALSE)
                             ELSE Raise(call.error),
                             IF ~Failed(call) THEN <<"versioning_enabled">>
                             ELSE IF caught THEN <<VersioningReport(call.error.code)>>
                             ELSE <<>>,
                             NoKey)
       /\ UNCHANGED <<bucket, s3, store, policy, lifecycle, local, uploaded>>

LifecycleConfig_clamped(expiration_days) ==
  [Rules |-> <<[Status |-> "Enabled", Filter |-> [Prefix |-> ""],
                Expiration |-> [Days |-> IF expiration_days < 1 THEN DefaultDays
                                         ELSE expiration_days]]>>]

LifecycleConfig(expiration_days) ==
  [Rules |-> <<[Status |-> "Enabled", Filter |-> [Prefix |-> ""],
                Expiration |-> [Days |-> expiration_days]]>>]

set_bucket_lifecycle_policy(args) ==
  \E fault \in FaultChoices :
    LET expiration_days == IF args = <<>> THEN DefaultDays ELSE args[1]
        lifecycle_config == LifecycleConfig(expiration_days)
        call == Call("put_bucket_lifecycle_configuration", bucket, lifecycle_config, fault,
                     put_bucket_lifecycle_configuration(bucket, lifecycle_config, fault))
    IN /\ lifecycle' = IF Failed(call) THEN lifecycle
                       ELSE [lifecycle EXCEPT ![bucket] = lifecycle_config]
       /\ last' = Invocation("set_bucket_lifecycle_policy", args, <<call>>,
                             IF Failed(call) THEN Return(FALSE) ELSE Return(TRUE),
                             IF Failed(call) THEN <<"lifecycle_error">>
                             ELSE <<"lifecycle_ok", "lifecycle_days">>,
                             NoKey)
       /\ UNCHANGED <<bucket, s3, store, policy, versioning, local, uploaded>>

\* upload that reports success although the object never reaches the bucket.
upload_not_stored(file_path, object_name) ==
  \E fault \in FaultChoices :
    LET call == Call("upload_file", bucket, <<file_path, object_name>>, fault,
                     upload_file(file_path, bucket, object_name, fault))
    IN /\ store' = store
       /\ uploaded' = IF Failed(call) THEN uploaded
                      ELSE [uploaded EXCEPT ![object_name] = local[file_path]]
       /\ last' = Invocation("upload", [file_path |-> file_path, object_name |-> object_name],
                             <<call>>,
                             IF Failed(call) THEN Raise(call.error) ELSE Return(None),
                             IF Failed(call) THEN <<>> ELSE <<"uploaded">>,
                             NoKey)
       /\ UNCHANGED <<bucket, s3, policy, versioning, lifecycle, local>>

\* upload that leaves an object already stored under the key as it is.
upload_keeps_existing(file_path, object_name) ==
  \E fault \in FaultChoices :
    LET call == Call("upload_file", bucket, <<file_path, object_name>>, fault,
                     upload_file(file_path, bucket, object_name, fault))
    IN /\ store' = IF Failed(call) \/ store[bucket][object_name] # Absent THEN store
                   ELSE [store EXCEPT ![bucket][object_name] = local[file_path]]
       /\ uploaded' = IF Failed(call) THEN uploaded
                      ELSE [uploaded EXCEPT ![object_name] = local[file_path]]
       /\ last' = Invocation("upload", [file_path |-> file_path, object_name |-> object_name],
                             <<call>>,
                             IF Failed(call) THEN Raise(call.error) ELSE Return(None),
                             IF Failed(call) THEN <<>> ELSE <<"uploaded">>,
                             NoKey)
       /\ UNCHANGED <<bucket, s3, policy, versioning, lifecycle, local>>

\* upload that sends the object to another bucket than self.bucket.
upload_other_bucket(file_path, object_name) ==
  \E fault \in FaultChoices :
    LET call == Call("upload_file", ForeignBucket, <<file_path, object_name>>, fault,
                     upload_file(file_path, ForeignBucket, object_name, fault))
    IN /\ store' = IF Failed(call) THEN store
                   ELSE [store EXCEPT ![ForeignBucket][object_name] = local[file_path]]
       /\ uploaded' = IF Failed(call) THEN uploaded
                      ELSE [uploaded EXCEPT ![object_name] = local[file_path]]
       /\ last' = Invocation("upload", [file_path |-> file_path, object_name |-> object_name],
                             <<call>>,
                             IF Failed(call) THEN Raise(call.error) ELSE Return(None),
                             IF Failed(call) THEN <<>> ELSE <<"uploaded">>,
                             NoKey)
       /\ UNCHANGED <<bucket, s3, policy, versioning, lifecycle, local>>

upload(file_path, object_name) ==
  \E fault \in FaultChoices :
    LET call == Call("upload_file", bucket, <<file_path, object_name>>, fault,
                     upload_file(file_path, bucket, object_name, fault))
    IN /\ store' = IF Failed(call) THEN store
                   ELSE [store EXCEPT ![bucket][object_name] = local[file_path]]
       /\ uploaded' = IF Failed(call) THEN uploaded
                      ELSE [uploaded EXCEPT ![object_name] = local[file_path]]
       /\ last' = Invocation("upload", [file_path |-> file_path, object_name |-> object_name],
                             <<call>>,
                             IF Failed(call) THEN Raise(call.error) ELSE Return(None),
                             IF Failed(call) THEN <<>> ELSE <<"uploaded">>,
                             NoKey)
       /\ UNCHANGED <<bucket, s3, policy, versioning, lifecycle, local>>

download(object_name, save_path) ==
  \E fault \in FaultChoices :
    LET call == Call("download_file", bucket, <<object_name, save_path>>, fault,
                     download_file(bucket, object_name, save_path, fault))
    IN /\ local' = IF Failed(call) THEN local ELSE [local EXCEPT ![save_path] = call.response]
       /\ last' = Invocation("download", [object_name |-> object_name, save_path |-> save_path],
                             <<call>>,
                             IF Failed(call) THEN Raise(call.error) ELSE Return(None),
                             IF Failed(call) THEN <<>> ELSE <<"downloaded">>,
                             JustUploaded(last))
       /\ UNCHANGED <<bucket, s3, store, policy, versioning, lifecycle, uploaded>>

\* list_files that answers a failed listing with the empty list.
list_files_result_swallow(call) ==
  IF Failed(call) THEN Return(<<>>)
  ELSE IF "Contents" \notin DOMAIN call.response THEN Return(<<>>)
  ELSE Return([i \in 1..Len(call.response.Contents) |-> call.response.Contents[i].Key])

\* list_files that drops the last entry of the response.
list_files_result_short(call) ==
  IF Failed(call) THEN Raise(call.error)
  ELSE IF "Contents" \notin DOMAIN call.response THEN Return(<<>>)
  ELSE Return([i \in 1..(Len(call.response.Contents) - 1) |-> call.response.Contents[i].Key])

list_files_result(call) ==
  IF Failed(call) THEN Raise(call.error)
  ELSE IF "Contents" \notin DOMAIN call.response THEN Return(<<>>)
  ELSE Return([i \in 1..Len(call.response.Contents) |-> call.response.Contents[i].Key])

\* list_files that follows a truncated response with a second call.
list_files_paginating ==
  \E fault \in FaultChoices :
    LET call == Call("list_objects_v2", bucket, None, fault, list_objects_v2(bucket, fault))
        more == ~Failed(call) /\ call.response.IsTruncated
        all == SortedKeys(ObjectKeys(bucket))
    IN /\ last' = Invocation("list_files", None,
                             IF more THEN <<call, call>> ELSE <<call>>,
                             IF more THEN Return(all) ELSE list_files_result(call), <<>>,
                             NoKey)
       /\ UNCHANGED <<bucket, s3, store, policy, versioning, lifecycle, local, uploaded>>

list_files ==
  \E fault \in FaultChoices :
    LET call == Call("list_objects_v2", bucket, None, fault, list_objects_v2(bucket, fault))
    IN /\ last' = Invocation("list_files", None, <<call>>, list_files_result(call), <<>>,
                             NoKey)
       /\ UNCHANGED <<bucket, s3, store, policy, versioning, lifecycle, local, uploaded>>

\* file_exists that catches the not-found answer alone.
file_exists_result_only_404(call) ==
  IF ~Failed(call) THEN Return(TRUE)
  ELSE IF call.error.class = "ClientError" /\ call.error.code = "404" THEN Return(FALSE)
  ELSE Raise(call.error)

file_exists_result(call) ==
  IF ~Failed(call) THEN Return(TRUE)
  ELSE IF call.error.class = "ClientError" THEN Return(FALSE)
  ELSE Raise(call.error)

\* file_exists that probes the bucket instead of the object.
file_exists_head_bucket(object_name) ==
  \E fault \in FaultChoices :
    LET call == Call("head_bucket", bucket, object_name, fault,
                     IF fault # NoFault THEN Answer(fault, None)
                     ELSE IF bucket \notin ExistingBuckets THEN Answer(ClientError("404"), None)
                     ELSE Answer(NoError, None))
    IN /\ last' = Invocation("file_exists", [object_name |-> object_name], <<call>>,
                             file_exists_result(call), <<>>, JustUploaded(last))
       /\ UNCHANGED <<bucket, s3, store, policy, versioning, lifecycle, local, uploaded>>

file_exists(object_name) ==
  \E fault \in FaultChoices :
    LET call == Call("head_object", bucket, object_name, fault,
                     head_object(bucket, object_name, fault))
    IN /\ last' = Invocation("file_exists", [object_name |-> object_name], <<call>>,
                             file_exists_result(call), <<>>, JustUploaded(last))
       /\ UNCHANGED <<bucket, s3, store, policy, versioning, lifecycle, local, uploaded>>

\* The service applies an installed lifecycle rule: an object the rule's
\* prefix matches expires once it is older than the rule's Days.
Expiration(b, k) ==
  /\ lifecycle[b].Rules # <<>>
  /\ lifecycle[b].Rules[1].Status = "Enabled"
  /\ lifecycle[b].Rules[1].Filter.Prefix = ""
  /\ store[b][k] # Absent
  /\ store' = [store EXCEPT ![b][k] = Absent]
  /\ uploaded' = IF b = bucket THEN [uploaded EXCEPT ![k] = Absent] ELSE uploaded
  /\ last' = Invocation("expiration", None, <<>>, Return(None), <<>>, NoKey)
  /\ UNCHANGED <<bucket, s3, policy, versioning, lifecycle, local>>

Next ==
  \/ set_bucket_policy
  \/ enable_bucket_versioning
  \/ \E args \in DaysInputs : set_bucket_lifecycle_policy(args)
  \/ \E file_path \in Paths, object_name \in Keys : upload(file_path, object_name)
  \/ \E object_name \in Keys, save_path \in Paths : download(object_name, save_path)
  \/ list_files
  \/ \E object_name \in Keys : file_exists(object_name)
  \/ \E b \in ExistingBuckets, k \in Keys : Expiration(b, k)

Spec == Init /\ [][Next]_vars

(***************************************************************************)
(* Properties.                                                             *)
(***************************************************************************)
TheCall == last.calls[1]
Returned == last.result.kind = "return"
Raised == last.result.kind = "raise"
Answered == TheCall.fault = NoFault

\* The keys uploaded through the client and not expired since.
Live == {k \in Keys : uploaded[k] # Absent}

C2_DownloadRoundTrip ==
  (last.op = "download" /\ Returned)
    => /\ uploaded[last.args.object_name] \in Contents
       /\ local[last.args.save_path] = uploaded[last.args.object_name]
       /\ (last.after.key = last.args.object_name
             => local[last.args.save_path] = local[last.after.path])

C2_Witness ==
  /\ last.op = "download" /\ Returned
  /\ last.after.key = last.args.object_name
  /\ last.after.path # last.args.save_path
  /\ local[last.args.save_path] = "c2"
  /\ local[last.after.path] = "c2"

C4_AbsentKeyIsFalse ==
  (last.op = "file_exists" /\ Answered /\ uploaded[last.args.object_name] = Absent)
    => (Returned /\ last.result.value = FALSE)

\* No lifecycle rule was ever installed here, so no object ever expired: the
\* probed key was never uploaded, while another key was.
C4_Witness ==
  /\ last.op = "file_exists" /\ Answered
  /\ bucket = ConfiguredBucket
  /\ lifecycle[bucket] = NoLifecycle
  /\ uploaded[last.args.object_name] = Absent
  /\ Live # {}
  /\ TheCall.error = ClientError("404")
  /\ Returned /\ last.result.value = FALSE

\* C5 as stated: file_exists returns false on every failure of the probe and
\* lets no error reach the caller.
C5_EveryFailureIsFalse_Original ==
  (last.op = "file_exists" /\ Failed(TheCall))
    => (Returned /\ last.result.value = FALSE)

\* C5, amended: file_exists returns false on every failure of the probe that is
\* a ClientError (an error response of the service: not-found, access-denied or
\* any other code); a failure that is no ClientError (a connection error)
\* reaches the caller unchanged.
C5_ClientErrorIsFalse ==
  last.op = "file_exists"
    => /\ (~Failed(TheCall) => Returned /\ last.result.value = TRUE)
       /\ (TheCall.error.class = "ClientError" => Returned /\ last.result.value = FALSE)
       /\ (Failed(TheCall) /\ TheCall.error.class # "ClientError"
             => Raised /\ last.result.error = TheCall.error)

C5_Witness ==
  /\ last.op = "file_exists"
  /\ TheCall.error = ClientError("AccessDenied")
  /\ uploaded[last.args.object_name] # Absent
  /\ Returned /\ last.result.value = FALSE

\* C6 as stated: enable_bucket_versioning never lets an error reach the caller;
\* on any failure of the call it reports one classification and returns false.
C6_NeverPropagates_Original ==
  last.op = "enable_bucket_versioning"
    => /\ Returned
       /\ (Failed(TheCall) => last.result.value = FALSE /\ Len(last.out) = 1)

\* C6, amended: enable_bucket_versioning returns true only when the call
\* succeeded; when the call fails with a ClientError it reports exactly one of
\* bucket-not-found (code NoSuchBucket), access-denied (code AccessDenied) or
\* other, and returns false, so with a nonexistent bucket it returns false with
\* the bucket-not-found report; a failure that is no ClientError (a connection
\* error) reaches the caller unchanged.
C6_ClassifiesClientErrors ==
  last.op = "enable_bucket_versioning"
    => /\ (Returned /\ last.result.value = TRUE <=> ~Failed(TheCall))
       /\ (TheCall.error.class = "ClientError"
             => /\ Returned /\ last.result.value = FALSE
                /\ last.out = << CASE TheCall.error.code = "NoSuchBucket" -> "bucket_not_found"
                                   [] TheCall.error.code = "AccessDenied" -> "access_denied"
                                   [] OTHER -> "versioning_error" >>)
       /\ (Failed(TheCall) /\ TheCall.error.class # "ClientError"
             => Raised /\ last.result.error = TheCall.error /\ last.out = <<>>)
       /\ (bucket \notin ExistingBuckets /\ Answered
             => Returned /\ last.result.value = FALSE /\ last.out = <<"bucket_not_found">>)

C6_Witness ==
  /\ last.op = "enable_bucket_versioning"
  /\ bucket = MissingBucket /\ Answered
  /\ Returned /\ last.result.value = FALSE
  /\ last.out = <<"bucket_not_found">>

\* C7: set_bucket_lifecycle_policy always returns: false, with a report, when
\* the call fails for any reason; true when it succeeds, and then the bucket has
\* exactly one rule, enabled, with empty prefix, expiring after the days given
\* (3 when none are given, non-positive values included as they are).
C7_LifecycleSwallows ==
  last.op = "set_bucket_lifecycle_policy"
    => LET days == IF last.args = <<>> THEN 3 ELSE last.args[1]
           rules == <<[Status |-> "Enabled", Filter |-> [Prefix |-> ""],
                       Expiration |-> [Days |-> days]]>>
       IN /\ Returned
          /\ TheCall.arg.Rules = rules
          /\ (Failed(TheCall) => last.result.value = FALSE /\ last.out = <<"lifecycle_error">>)
          /\ (~Failed(TheCall) => last.result.value = TRUE /\ lifecycle[bucket].Rules = rules)

C7_Witness ==
  /\ last.op = "set_bucket_lifecycle_policy"
  /\ last.args = <<0>>
  /\ Returned /\ last.result.value = TRUE
  /\ lifecycle[bucket].Rules[1].Expiration.Days = 0

\* C8: when the capability call of set_bucket_policy, upload, download or
\* list_files fails, the caller gets that same error, and no success is
\* reported.
C8_Propagates ==
  (last.op \in {"set_bucket_policy", "upload", "download", "list_files"} /\ Failed(TheCall))
    => (Raised /\ last.result.error = TheCall.error /\ last.out = <<>>)

C8_Witness ==
  /\ last.op = "set_bucket_policy"
  /\ TheCall.error = ClientError("AccessDenied")
  /\ Raised /\ last.result.error = ClientError("AccessDenied")
  /\ bucket = ConfiguredBucket
  /\ policy[bucket] = NoPolicy

Methods ==
  {"set_bucket_policy", "enable_bucket_versioning", "set_bucket_lifecycle_policy",
   "upload", "download", "list_files", "file_exists"}

ReadsFresh ==
  /\ (last.op = "file_exists" /\ Answered)
       => last.result.value = (bucket \in ExistingBuckets
                                /\ store[bucket][last.args.object_name] # Absent)
  /\ (last.op = "list_files" /\ Returned)
       => \A i \in 1..Len(last.result.value) : store[bucket][last.result.value[i]] # Absent
  /\ (last.op = "download" /\ Returned)
       => local[last.args.save_path] = store[bucket][last.args.object_name]

\* C10: no operation, failed or not, changes self.bucket or self.s3; every
\* capability call names self.bucket, no other bucket's contents change, and a
\* read returns what the bucket holds at the call.
C10_ConfigurationFixed ==
  [][/\ bucket' = bucket
     /\ s3' = s3
     /\ \A i \in 1..Len(last'.calls) : last'.calls[i].Bucket = bucket
     /\ \A b \in ExistingBuckets \ {bucket} :
          /\ store'[b] = store[b]
          /\ policy'[b] = policy[b]
          /\ versioning'[b] = versioning[b]
          /\ lifecycle'[b] = lifecycle[b]
     /\ ReadsFresh']_vars

C10_Witness ==
  /\ last.op = "upload" /\ Raised
  /\ bucket = ConfiguredBucket
  /\ policy[bucket] # NoPolicy
  /\ versioning[bucket] # NoVersioning
  /\ Live # {}
  /\ store[ForeignBucket] = [k \in Keys |-> Absent]
====
